---- MODULE Spec2Model ----
(***************************************************************************)
(* Model of src/app.py: the step-wise PDF job service.                     *)
(*                                                                         *)
(* processing_results is the module-level dictionary jobId -> job_data.    *)
(* Every request is served by a worker thread of the Flask server, so the  *)
(* three operations process_pdf_start, process_pdf_with and                *)
(* process_pdf_final_result are modelled as straight-line processes whose  *)
(* steps are the places where they read or write shared state (the         *)
(* dictionary, a job_data dict and its "pages" list, the output directory).*)
(* The code takes no lock, so steps of different workers interleave freely.*)
(*                                                                         *)
(* A job_data dict is a heap object: a worker that fetched it at line 99   *)
(* or 148 keeps using that object even after the dictionary entry was      *)
(* deleted or replaced.  Objects are numbered from 1 in heap.               *)
(***************************************************************************)
EXTENDS Integers, Sequences, FiniteSets, TLC

\* ---------------------------------------------------------------- bounds
NThreads == 2      \* worker threads serving requests concurrently
NJobs    == 2      \* distinct jobId values clients use
MaxPages == 2      \* largest page count of a document
MaxFails == 1      \* Page Processor failures over a run
MaxReqs  == 3      \* requests the server accepts over a run

Threads == 1..NThreads
Jobs    == 1..NJobs
\* every job_data dict is created by one Start request; one more may exist
\* when the run begins
Objs    == 1..(MaxReqs + 1)
PageIds == 0..(MaxPages - 1)
\* page indexes a client may send: below, inside and above every range
PageArgs == (-1)..MaxPages

\* `job_id not in processing_results`
Absent == 0

\* a document on disk as process_pdf_start sees it: unreadable (read, open
\* or classify raises), or a page count and a classification
Unreadable == [readable |-> FALSE, page_count |-> 0, is_ocr |-> FALSE]
\* the files clients submit: a broken one, a text PDF of MaxPages pages and
\* a scanned PDF one page shorter
Docs == {Unreadable,
         [readable |-> TRUE, page_count |-> MaxPages, is_ocr |-> FALSE],
         [readable |-> TRUE, page_count |-> MaxPages - 1, is_ocr |-> TRUE]}
NoDoc == Unreadable

\* a job_data slot of the heap that no Start has filled yet
NoData == [live |-> FALSE, is_ocr |-> FALSE, page_count |-> 0, pages |-> << >>]

\* what a worker hands back to its route handler
NoRet == [kind |-> "none", pageCount |-> 0, pages |-> << >>]
Ret(k, n, ps) == [kind |-> k, pageCount |-> n, pages |-> ps]

VARIABLES
    processing_results, \* jobId -> object id of its job_data, or Absent
    heap,               \* object id -> job_data dict
    dirs,               \* jobIds whose directory output/{jobId} exists
    pc,                 \* per worker: position in the operation it serves
    op,                 \* per worker: "start" | "page" | "complete" | "none"
    job,                \* per worker: job_id argument
    page,               \* per worker: page argument
    doc,                \* per worker: the document at pdf_file_path
    job_data,           \* per worker: the local job_data reference
    ret,                \* per worker: value returned to the client
    process_fails,      \* <<object,page>> -> process_single_page calls that raised
    cleaned,            \* object -> clean_memory calls made for it
    completed,          \* object -> page indexes whose process_single_page call
                        \* returned, in the order the calls returned
    requests,           \* requests accepted so far
    named,              \* jobIds clients have used so far: 1..named
    retrying            \* per worker: its process_single_page call follows
                        \* an earlier failed call for the same job_data and page

vars == <<processing_results, heap, dirs, pc, op, job, page, doc, job_data,
          ret, process_fails, cleaned, completed, requests, retrying, named>>

shared == <<processing_results, heap, dirs>>
ghost  == <<process_fails, cleaned, completed>>

\* ---------------------------------------------------------------- helpers
RECURSIVE SumOver(_, _)
SumOver(f, S) ==
    IF S = {} THEN 0
    ELSE LET x == CHOOSE y \in S : TRUE IN f[x] + SumOver(f, S \ {x})

TotalFails == SumOver(process_fails, Objs \X PageIds)

\* the object a new job_data dict literal gets
NewObj == CHOOSE o \in Objs : ~heap[o].live /\ \A q \in Objs : q < o => heap[q].live

\* process_single_page followed by get_middle_json: dispatch on is_ocr
process_single_page(ds, page_id, is_ocr) ==
    IF is_ocr
    THEN [ds |-> ds, page |-> page_id, pipe |-> "ocr"]
    ELSE [ds |-> ds, page |-> page_id, pipe |-> "txt"]

\* the page_data dict literal
PageData(p, content) == [pageIndex |-> p, content |-> content]

\* the scan without its `return processed_page`: every page looks uncached
FindProcessed_Miss(pages, p, i) == << >>

\* the loop `for processed_page in job_data["pages"]`: the first entry whose
\* pageIndex equals page, as a sequence of length 0 (miss) or 1 (hit)
RECURSIVE FindProcessed(_, _, _)
FindProcessed(pages, p, i) ==
    IF i > Len(pages) THEN << >>
    ELSE IF pages[i].pageIndex = p THEN <<pages[i]>>
    ELSE FindProcessed(pages, p, i + 1)

\* the upper comparison written `>` for `>=`
OutOfRange_OffByOne(p, page_count) == p < 0 \/ p > page_count

\* `page < 0 or page >= job_data["page_count"]`
OutOfRange(p, page_count) == p < 0 \/ p >= page_count

\* ---------------------------------------------------------------- Init
Init ==
    /\ processing_results = [j \in Jobs |-> Absent]
    /\ heap = [o \in Objs |-> NoData]
    /\ dirs = {}
    /\ pc = [t \in Threads |-> "idle"]
    /\ op = [t \in Threads |-> "none"]
    /\ job = [t \in Threads |-> 1]
    /\ page = [t \in Threads |-> 0]
    /\ doc = [t \in Threads |-> NoDoc]
    /\ job_data = [t \in Threads |-> Absent]
    /\ ret = [t \in Threads |-> NoRet]
    /\ process_fails = [x \in Objs \X PageIds |-> 0]
    /\ cleaned = [o \in Objs |-> 0]
    /\ completed = [o \in Objs |-> << >>]
    /\ requests = 0
    /\ named = 0
    /\ retrying = [t \in Threads |-> FALSE]

\* a worker finishes its operation with return value r
Finish(t, r) ==
    /\ named' = named
    /\ pc' = [pc EXCEPT ![t] = "done"]
    /\ ret' = [ret EXCEPT ![t] = r]
    /\ requests' = requests
    /\ retrying' = retrying

Goto(t, l) ==
    /\ named' = named
    /\ pc' = [pc EXCEPT ![t] = l]
    /\ ret' = ret
    /\ requests' = requests
    /\ retrying' = retrying

\* jobIds are opaque strings chosen by the clients and no code compares two
\* of them except for equality, so they are numbered in order of first use:
\* a request names a jobId used before or the next unused one
NextJobs == {j \in Jobs : j <= named + 1}

\* a worker is free before its first request and after it has returned
Free(t) == pc[t] \in {"idle", "done"}

\* the server hands the next request to its first free worker, which enters
\* the route handler; workers are interchangeable.  The worker's locals of
\* the previous request are gone.
Accept(t) ==
    /\ Free(t)
    /\ \A u \in Threads : u < t => ~Free(u)
    /\ requests < MaxReqs
    /\ requests' = requests + 1
    /\ retrying' = [retrying EXCEPT ![t] = FALSE]

\* ---------------------------------------------------------------- requests
\* POST /process-pdf-start: handle_pdf_start calls process_pdf_start, which
\* runs lines 44-52: os.makedirs(output/{job_id}/images, exist_ok=True)
RecvStart(t) ==
    /\ Accept(t)
    /\ \E j \in NextJobs, d \in Docs :
          /\ named' = IF j > named THEN j ELSE named
          /\ op' = [op EXCEPT ![t] = "start"]
          /\ job' = [job EXCEPT ![t] = j]
          /\ doc' = [doc EXCEPT ![t] = d]
          /\ dirs' = dirs \cup {j}
    /\ page' = [page EXCEPT ![t] = 0]
    /\ job_data' = [job_data EXCEPT ![t] = Absent]
    /\ pc' = [pc EXCEPT ![t] = "s_open"]
    /\ ret' = [ret EXCEPT ![t] = NoRet]
    /\ UNCHANGED <<processing_results, heap, ghost>>

\* a RequestPage that prepares the output directory before it looks the
\* job up
RecvPage_Mkdir(t) ==
    /\ Accept(t)
    /\ \E j \in NextJobs, p \in PageArgs :
          /\ named' = IF j > named THEN j ELSE named
          /\ op' = [op EXCEPT ![t] = "page"]
          /\ job' = [job EXCEPT ![t] = j]
          /\ page' = [page EXCEPT ![t] = p]
          /\ dirs' = dirs \cup {j}
          /\ IF processing_results[j] = Absent
             THEN /\ pc' = [pc EXCEPT ![t] = "done"]
                  /\ ret' = [ret EXCEPT ![t] = Ret("JobNotFound", 0, << >>)]
             ELSE /\ pc' = [pc EXCEPT ![t] = "w_get"]
                  /\ ret' = [ret EXCEPT ![t] = NoRet]
    /\ doc' = [doc EXCEPT ![t] = NoDoc]
    /\ job_data' = [job_data EXCEPT ![t] = Absent]
    /\ UNCHANGED <<processing_results, heap, ghost>>

\* POST /process-pdf-page: handle_pdf_page calls process_pdf_with, which
\* runs lines 96-97
RecvPage(t) ==
    /\ Accept(t)
    /\ \E j \in NextJobs, p \in PageArgs :
          /\ named' = IF j > named THEN j ELSE named
          /\ op' = [op EXCEPT ![t] = "page"]
          /\ job' = [job EXCEPT ![t] = j]
          /\ page' = [page EXCEPT ![t] = p]
          /\ IF processing_results[j] = Absent
             THEN /\ pc' = [pc EXCEPT ![t] = "done"]
                  /\ ret' = [ret EXCEPT ![t] = Ret("JobNotFound", 0, << >>)]
             ELSE /\ pc' = [pc EXCEPT ![t] = "w_get"]
                  /\ ret' = [ret EXCEPT ![t] = NoRet]
    /\ doc' = [doc EXCEPT ![t] = NoDoc]
    /\ job_data' = [job_data EXCEPT ![t] = Absent]
    /\ UNCHANGED <<shared, ghost>>

\* POST /process-pdf-complete: handle_pdf_complete calls
\* process_pdf_final_result, which runs lines 145-146
RecvComplete(t) ==
    /\ Accept(t)
    /\ \E j \in NextJobs :
          /\ named' = IF j > named THEN j ELSE named
          /\ op' = [op EXCEPT ![t] = "complete"]
          /\ job' = [job EXCEPT ![t] = j]
          /\ IF processing_results[j] = Absent
             THEN /\ pc' = [pc EXCEPT ![t] = "done"]
                  /\ ret' = [ret EXCEPT ![t] = Ret("JobNotFound", 0, << >>)]
             ELSE /\ pc' = [pc EXCEPT ![t] = "f_get"]
                  /\ ret' = [ret EXCEPT ![t] = NoRet]
    /\ page' = [page EXCEPT ![t] = 0]
    /\ doc' = [doc EXCEPT ![t] = NoDoc]
    /\ job_data' = [job_data EXCEPT ![t] = Absent]
    /\ UNCHANGED <<shared, ghost>>

\* a request whose JSON body lacks a required field never reaches the job
\* code with a usable argument: the three handlers answer 400 when
\* fileAbsolutePath is missing (lines 185-187, 210-212, 240-242), and
\* handle_pdf_page and handle_pdf_complete also when jobId or page is
\* (213-218, 243-245); handle_pdf_start does not test jobId, so
\* os.path.join("output", None, "images") at line 48 raises before anything
\* is created and the handler answers 500 (195-196)
RecvInvalid(t) ==
    /\ Accept(t)
    /\ \E k \in {"MissingField", "error500"} :
          ret' = [ret EXCEPT ![t] = Ret(k, 0, << >>)]
    /\ pc' = [pc EXCEPT ![t] = "done"]
    /\ op' = [op EXCEPT ![t] = "invalid"]
    /\ job' = [job EXCEPT ![t] = 1]
    /\ page' = [page EXCEPT ![t] = 0]
    /\ doc' = [doc EXCEPT ![t] = NoDoc]
    /\ job_data' = [job_data EXCEPT ![t] = Absent]
    /\ UNCHANGED <<shared, ghost, named>>

\* ---------------------------------------------------------------- process_pdf_start
\* a failing Start that undoes the job: it removes the output directory and
\* the entry of its jobId
S_OpenRaise_Unregisters(t) ==
    /\ pc[t] = "s_open"
    /\ ~doc[t].readable
    /\ processing_results' = [processing_results EXCEPT ![job[t]] = Absent]
    /\ dirs' = dirs \ {job[t]}
    /\ Finish(t, Ret("error500", 0, << >>))
    /\ UNCHANGED <<heap, ghost, op, job, page, doc, job_data>>

\* lines 54-64 raise (unreadable file, open or classify error); the handler
\* at 195-196 turns the exception into a 500 response
S_OpenRaise(t) ==
    /\ pc[t] = "s_open"
    /\ ~doc[t].readable
    /\ Finish(t, Ret("error500", 0, << >>))
    /\ UNCHANGED <<shared, ghost, op, job, page, doc, job_data>>

\* lines 54-82: open, count pages, classify, then
\* processing_results[job_id] = {...} with a fresh dict and pages = []
S_Register(t) ==
    /\ pc[t] = "s_open"
    /\ doc[t].readable
    /\ LET o == NewObj IN
          /\ heap' = [heap EXCEPT ![o] = [live |-> TRUE,
                                          is_ocr |-> doc[t].is_ocr,
                                          page_count |-> doc[t].page_count,
                                          pages |-> << >>]]
          /\ processing_results' = [processing_results EXCEPT ![job[t]] = o]
    /\ Finish(t, Ret("success", doc[t].page_count, << >>))
    /\ UNCHANGED <<dirs, ghost, op, job, page, doc, job_data>>

\* ---------------------------------------------------------------- process_pdf_with
\* lines 99-102: job_data = processing_results[job_id] (KeyError when a
\* Complete deleted the entry since line 96), then the range check
W_Get(t) ==
    /\ pc[t] = "w_get"
    /\ LET o == processing_results[job[t]] IN
          IF o = Absent
          THEN /\ Finish(t, Ret("error500", 0, << >>))
               /\ job_data' = job_data
          ELSE /\ job_data' = [job_data EXCEPT ![t] = o]
               /\ IF OutOfRange(page[t], heap[o].page_count)
                  THEN Finish(t, Ret("RangeError", 0, << >>))
                  ELSE Goto(t, "w_cache")
    /\ UNCHANGED <<shared, ghost, op, job, page, doc>>

\* lines 104-116: the cache scan; on a hit return the entry, on a miss
\* enter process_single_page
W_Cache(t) ==
    /\ pc[t] = "w_cache"
    /\ LET hit == FindProcessed(heap[job_data[t]].pages, page[t], 1) IN
          IF hit # << >>
          THEN Finish(t, Ret("page", 0, hit))
          ELSE /\ pc' = [pc EXCEPT ![t] = "w_proc"]
               /\ retrying' = [retrying EXCEPT
                                 ![t] = process_fails[<<job_data[t], page[t]>>] > 0]
               /\ UNCHANGED <<ret, requests, named>>
    /\ UNCHANGED <<shared, ghost, op, job, page, doc, job_data>>

\* the pages of a list put in page index order
RECURSIVE SortedFrom(_, _)
SortedFrom(pages, p) ==
    IF p >= MaxPages THEN << >>
    ELSE SelectSeq(pages, LAMBDA x : x.pageIndex = p) \o SortedFrom(pages, p + 1)

\* a RequestPage that keeps the pages list in page index order
W_Process_Sorted(t) ==
    /\ pc[t] = "w_proc"
    /\ LET o  == job_data[t]
           pd == PageData(page[t],
                          process_single_page(o, page[t], heap[o].is_ocr)) IN
          /\ heap' = [heap EXCEPT ![o].pages = SortedFrom(Append(@, pd), 0)]
          /\ completed' = [completed EXCEPT ![o] = Append(@, page[t])]
          /\ Finish(t, Ret("page", 0, <<pd>>))
    /\ UNCHANGED <<processing_results, dirs, process_fails, cleaned,
                   op, job, page, doc, job_data>>

\* lines 116-132: the engine returns; page_data is appended to the pages
\* list of the job_data this worker holds, and returned
W_Process(t) ==
    /\ pc[t] = "w_proc"
    /\ LET o  == job_data[t]
           pd == PageData(page[t],
                          process_single_page(o, page[t], heap[o].is_ocr)) IN
          /\ heap' = [heap EXCEPT ![o].pages = Append(@, pd)]
          /\ completed' = [completed EXCEPT ![o] = Append(@, page[t])]
          /\ Finish(t, Ret("page", 0, <<pd>>))
    /\ UNCHANGED <<processing_results, dirs, process_fails, cleaned,
                   op, job, page, doc, job_data>>

\* a failure path that records an error entry for the page in the cache
W_ProcessRaise_Caches(t) ==
    /\ pc[t] = "w_proc"
    /\ TotalFails < MaxFails
    /\ process_fails' = [process_fails EXCEPT ![<<job_data[t], page[t]>>] = @ + 1]
    /\ heap' = [heap EXCEPT ![job_data[t]].pages =
                   Append(@, PageData(page[t], [ds |-> job_data[t],
                                                page |-> page[t],
                                                pipe |-> "error"]))]
    /\ Finish(t, Ret("error500", 0, << >>))
    /\ UNCHANGED <<processing_results, dirs, cleaned, completed,
                   op, job, page, doc, job_data>>

\* lines 116-117 raise; the handler at 225-226 answers 500
W_ProcessRaise(t) ==
    /\ pc[t] = "w_proc"
    /\ TotalFails < MaxFails
    /\ process_fails' = [process_fails EXCEPT ![<<job_data[t], page[t]>>] = @ + 1]
    /\ Finish(t, Ret("error500", 0, << >>))
    /\ UNCHANGED <<shared, cleaned, completed, op, job, page, doc, job_data>>

\* ---------------------------------------------------------------- process_pdf_final_result
\* line 148 (KeyError when the entry was deleted since line 145)
F_Get(t) ==
    /\ pc[t] = "f_get"
    /\ LET o == processing_results[job[t]] IN
          IF o = Absent
          THEN /\ Finish(t, Ret("error500", 0, << >>))
               /\ job_data' = job_data
          ELSE /\ job_data' = [job_data EXCEPT ![t] = o]
               /\ Goto(t, "f_clean")
    /\ UNCHANGED <<shared, ghost, op, job, page, doc>>

\* lines 150-162: clean_memory(get_device()) returns, the result dict is
\* built; result["pages"] is the job_data's own list, not a copy
F_Clean(t) ==
    /\ pc[t] = "f_clean"
    /\ cleaned' = [cleaned EXCEPT ![job_data[t]] = @ + 1]
    /\ Goto(t, "f_del")
    /\ UNCHANGED <<shared, process_fails, completed, op, job, page, doc, job_data>>

\* line 151 raises; the handler at 252-253 answers 500
F_CleanRaise(t) ==
    /\ pc[t] = "f_clean"
    /\ Finish(t, Ret("error500", 0, << >>))
    /\ UNCHANGED <<shared, ghost, op, job, page, doc, job_data>>

\* a Complete that empties the whole store
F_Del_Clear(t) ==
    /\ pc[t] = "f_del"
    /\ IF processing_results[job[t]] = Absent
       THEN /\ Finish(t, Ret("error500", 0, << >>))
            /\ processing_results' = processing_results
       ELSE /\ processing_results' = [j \in Jobs |-> Absent]
            /\ Goto(t, "f_rmtree")
    /\ UNCHANGED <<heap, dirs, ghost, op, job, page, doc, job_data>>

\* line 165: del processing_results[job_id] (KeyError when already deleted)
F_Del(t) ==
    /\ pc[t] = "f_del"
    /\ IF processing_results[job[t]] = Absent
       THEN /\ Finish(t, Ret("error500", 0, << >>))
            /\ processing_results' = processing_results
       ELSE /\ processing_results' = [processing_results EXCEPT ![job[t]] = Absent]
            /\ Goto(t, "f_rmtree")
    /\ UNCHANGED <<heap, dirs, ghost, op, job, page, doc, job_data>>

\* a Complete that fills in the pages nobody requested before it reports
F_Rmtree_AllPages(t) ==
    /\ pc[t] = "f_rmtree"
    /\ dirs' = dirs \ {job[t]}
    /\ LET o == job_data[t] IN
          Finish(t, Ret("success", 0,
                        [i \in 1..heap[o].page_count |->
                            PageData(i - 1, process_single_page(o, i - 1,
                                                                heap[o].is_ocr))]))
    /\ UNCHANGED <<processing_results, heap, ghost, op, job, page, doc, job_data>>

\* lines 167-172 and jsonify(result) at 251: the directory tree is removed
\* when it exists, and the report is serialised from the pages list as it
\* is at that moment
F_Rmtree(t) ==
    /\ pc[t] = "f_rmtree"
    /\ dirs' = dirs \ {job[t]}
    /\ Finish(t, Ret("success", 0, heap[job_data[t]].pages))
    /\ UNCHANGED <<processing_results, heap, ghost, op, job, page, doc, job_data>>

\* shutil.rmtree raises; the handler at 252-253 answers 500
F_RmtreeRaise(t) ==
    /\ pc[t] = "f_rmtree"
    /\ job[t] \in dirs
    /\ Finish(t, Ret("error500", 0, << >>))
    /\ UNCHANGED <<shared, ghost, op, job, page, doc, job_data>>

\* ---------------------------------------------------------------- Next
Next ==
    \E t \in Threads :
        \/ RecvStart(t)
        \/ RecvPage(t)
        \/ RecvComplete(t)
        \/ RecvInvalid(t)
        \/ S_OpenRaise(t)
        \/ S_Register(t)
        \/ W_Get(t)
        \/ W_Cache(t)
        \/ W_Process(t)
        \/ W_ProcessRaise(t)
        \/ F_Get(t)
        \/ F_Clean(t)
        \/ F_CleanRaise(t)
        \/ F_Del(t)
        \/ F_Rmtree(t)
        \/ F_RmtreeRaise(t)

Spec == Init /\ [][Next]_vars

\* the server right after its first request, a Start of job 1 with the text
\* document, has returned: the state S_Register leaves, with the request
\* count taken from here
InitStarted ==
    \E d \in Docs :
        /\ d.readable /\ ~d.is_ocr
        /\ processing_results = [j \in Jobs |-> IF j = 1 THEN 1 ELSE Absent]
        /\ heap = [o \in Objs |->
                     IF o = 1
                     THEN [live |-> TRUE, is_ocr |-> d.is_ocr,
                           page_count |-> d.page_count, pages |-> << >>]
                     ELSE NoData]
        /\ dirs = {1}
        /\ pc = [t \in Threads |-> IF t = 1 THEN "done" ELSE "idle"]
        /\ op = [t \in Threads |-> IF t = 1 THEN "start" ELSE "none"]
        /\ job = [t \in Threads |-> 1]
        /\ page = [t \in Threads |-> 0]
        /\ doc = [t \in Threads |-> IF t = 1 THEN d ELSE NoDoc]
        /\ job_data = [t \in Threads |-> Absent]
        /\ ret = [t \in Threads |->
                    IF t = 1 THEN Ret("success", d.page_count, << >>) ELSE NoRet]
        /\ process_fails = [x \in Objs \X PageIds |-> 0]
        /\ cleaned = [o \in Objs |-> 0]
        /\ completed = [o \in Objs |-> << >>]
        /\ requests = 0
        /\ named = 1
        /\ retrying = [t \in Threads |-> FALSE]

SpecStarted == InitStarted /\ [][Next]_vars

\* ---------------------------------------------------------------- observations
\* entries of a pages list for page index p
Entries(pages, p) == Cardinality({i \in DOMAIN pages : pages[i].pageIndex = p})

\* workers currently inside process_single_page for object o, page p
InFlight(o, p) ==
    Cardinality({t \in Threads : pc[t] = "w_proc" /\ job_data[t] = o /\ page[t] = p})

\* calls of process_single_page made so far for object o, page p: every call
\* is still running, has raised, or has appended its page_data
ProcessCalls(o, p) ==
    InFlight(o, p) + process_fails[<<o, p>>] + Entries(heap[o].pages, p)

Registered(o) == \E j \in Jobs : processing_results[j] = o

\* ---------------------------------------------------------------- claims

\* C1: for one job_data and one page index, process_single_page is entered
\* at most once unless an earlier call raised -- also when several
\* RequestPage calls for the same uncached page run concurrently.
C1_ProcessedOnce ==
    \A o \in Objs, p \in PageIds :
        ProcessCalls(o, p) - process_fails[<<o, p>>] <= 1

\* C2: a Start that reaches the registration with a readable document while
\* its jobId is registered fails with AlreadyExists and leaves the Job Store
\* and the existing job_data unchanged.
C2_StartOnRegisteredFails ==
    [][\A t \in Threads :
          (pc[t] = "s_open" /\ doc[t].readable /\ pc'[t] = "done"
             /\ processing_results[job[t]] # Absent)
          => /\ ret'[t].kind = "AlreadyExists"
             /\ processing_results' = processing_results
             /\ heap' = heap]_vars

\* C3: the pages list of every registered job holds at most one entry per
\* page index.
C3_OneEntryPerPage ==
    \A j \in Jobs :
        processing_results[j] # Absent =>
            \A p \in PageIds : Entries(heap[processing_results[j]].pages, p) <= 1

\* C4: while a jobId stays registered, its is_ocr and page_count keep the
\* values recorded at Start.
C4_ModeAndCountFixed ==
    [][\A j \in Jobs :
          (processing_results[j] # Absent /\ processing_results'[j] # Absent)
          => /\ heap'[processing_results'[j]].is_ocr
                  = heap[processing_results[j]].is_ocr
             /\ heap'[processing_results'[j]].page_count
                  = heap[processing_results[j]].page_count]_vars

\* C5: when Complete returns its report, the jobId is absent from
\* processing_results and output/{jobId} does not exist, whatever other
\* requests for that jobId were in flight.
C5_CompleteLeavesNothing ==
    [][\A t \in Threads :
          (pc[t] = "f_rmtree" /\ pc'[t] = "done" /\ ret'[t].kind = "success")
          => /\ processing_results'[job[t]] = Absent
             /\ job[t] \notin dirs']_vars

\* C6: when Complete fails after it fetched the job_data (memory release or
\* a later step raises), the job is nevertheless removed from
\* processing_results and its output directory is deleted.
C6_FailedCompleteCleansUp ==
    [][\A t \in Threads :
          (pc[t] \in {"f_clean", "f_del", "f_rmtree"} /\ pc'[t] = "done"
             /\ ret'[t].kind = "error500")
          => /\ processing_results'[job[t]] = Absent
             /\ job[t] \notin dirs']_vars

\* C7: a RequestPage whose cache scan runs when the pages list already holds
\* the page index returns the first such entry as it is, enters
\* process_single_page for no page, and leaves every pages list unchanged.
C7_CachedPageReturned ==
    [][\A t \in Threads :
          LET pages == heap[job_data[t]].pages IN
          (pc[t] = "w_cache" /\ pc'[t] # "w_cache"
             /\ \E i \in DOMAIN pages : pages[i].pageIndex = page[t])
          => /\ pc'[t] = "done"
             /\ ret'[t].kind = "page"
             /\ \E i \in DOMAIN pages :
                   /\ pages[i].pageIndex = page[t]
                   /\ \A k \in 1..(i - 1) : pages[k].pageIndex # page[t]
                   /\ ret'[t].pages = <<pages[i]>>
             /\ heap' = heap
             /\ \A o \in Objs, p \in PageIds :
                   ProcessCalls(o, p)' = ProcessCalls(o, p)]_vars

\* C7 witness: two RequestPage calls for the same page of the same job_data
\* have both returned the same page_data and only one entry was computed.
C7_Witness ==
    \E t1, t2 \in Threads :
        /\ t1 # t2
        /\ pc[t1] = "done" /\ pc[t2] = "done"
        /\ op[t1] = "page" /\ op[t2] = "page"
        /\ job_data[t1] # Absent /\ job_data[t1] = job_data[t2]
        /\ page[t1] = page[t2]
        /\ ret[t1].kind = "page" /\ ret[t2] = ret[t1]
        /\ ProcessCalls(job_data[t1], page[t1]) = 1
        /\ heap[job_data[t1]].pages = ret[t1].pages

\* C8: when process_single_page raises, the request answers an error,
\* processing_results and every job_data (the pages lists included) stay as
\* they were, and a later RequestPage that finds no entry for its page
\* enters process_single_page however many earlier calls failed.
C8_FailureNotCached ==
    [][\A t \in Threads :
          /\ (pc[t] = "w_proc" /\ pc'[t] = "done" /\ ret'[t].kind # "page")
             => /\ ret'[t].kind = "error500"
                /\ processing_results' = processing_results
                /\ heap' = heap
                /\ process_fails'[<<job_data[t], page[t]>>]
                     = process_fails[<<job_data[t], page[t]>>] + 1
          /\ (pc[t] = "w_cache" /\ pc'[t] # "w_cache"
                /\ process_fails[<<job_data[t], page[t]>>] > 0
                /\ Entries(heap[job_data[t]].pages, page[t]) = 0)
             => pc'[t] = "w_proc"]_vars

\* C8 witness: a call made after a failed call for the same page of a job
\* that is still registered has computed and cached the page.
C8_Witness ==
    \E t \in Threads :
        /\ pc[t] = "done" /\ op[t] = "page" /\ retrying[t]
        /\ ret[t].kind = "page"
        /\ processing_results[job[t]] = job_data[t]
        /\ process_fails[<<job_data[t], page[t]>>] = 1
        /\ Entries(heap[job_data[t]].pages, page[t]) = 1

C10_RangeEnforced ==
    /\ \A t \in Threads :
          (op[t] = "page" /\ job_data[t] # Absent) =>
              IF page[t] \in 0..(heap[job_data[t]].page_count - 1)
              THEN /\ pc[t] \in {"w_cache", "w_proc", "done"}
                   /\ ret[t].kind # "RangeError"
              ELSE /\ pc[t] = "done"
                   /\ ret[t].kind = "RangeError"
    /\ \A o \in Objs :
          /\ \A i \in DOMAIN heap[o].pages :
                heap[o].pages[i].pageIndex \in 0..(heap[o].page_count - 1)
          /\ \A p \in PageIds :
                p >= heap[o].page_count => ProcessCalls(o, p) = 0

\* C10 witness: on one job_data, the index page_count was refused and the
\* index page_count-1 was served.
C10_Witness ==
    \E t1, t2 \in Threads :
        /\ pc[t1] = "done" /\ pc[t2] = "done"
        /\ op[t1] = "page" /\ op[t2] = "page"
        /\ job_data[t1] # Absent /\ job_data[t1] = job_data[t2]
        /\ page[t1] = heap[job_data[t1]].page_count
        /\ ret[t1].kind = "RangeError"
        /\ page[t2] = heap[job_data[t2]].page_count - 1
        /\ ret[t2].kind = "page"

\* ---------------------------------------------------------------- claims, continued
Range(f) == {f[i] : i \in DOMAIN f}

PageIndexes(pages) == [i \in DOMAIN pages |-> pages[i].pageIndex]

IsPrefix(a, b) == Len(a) <= Len(b) /\ \A i \in DOMAIN a : a[i] = b[i]

\* C11: of two Complete calls on the same job_data (no Start registered a
\* new one between them), when one has returned the report the other has
\* failed with JobNotFound and nothing else.
C11_SecondCompleteNotFound ==
    \A t1, t2 \in Threads :
        (/\ t1 # t2
         /\ pc[t1] = "done" /\ pc[t2] = "done"
         /\ op[t1] = "complete" /\ op[t2] = "complete"
         /\ job[t1] = job[t2]
         /\ ret[t1].kind = "success"
         /\ job_data[t2] \in {Absent, job_data[t1]})
        => ret[t2].kind = "JobNotFound"

\* C12: no step of Complete enters process_single_page or changes a pages
\* list, and the report it returns holds results for exactly the page
\* indexes computed so far for its job_data, each the result of that page.
C12_ReportOnlyComputed ==
    [][\A t \in Threads :
          (pc[t] \in {"f_get", "f_clean", "f_del", "f_rmtree"} /\ pc'[t] # pc[t])
          => /\ heap' = heap
             /\ \A o \in Objs, p \in PageIds :
                   ProcessCalls(o, p)' = ProcessCalls(o, p)
             /\ (pc[t] = "f_rmtree" /\ ret'[t].kind = "success")
                => LET o == job_data[t] IN
                   /\ Range(PageIndexes(ret'[t].pages)) = Range(completed[o])
                   /\ \A i \in DOMAIN ret'[t].pages :
                         ret'[t].pages[i] =
                            PageData(ret'[t].pages[i].pageIndex,
                                     process_single_page(o,
                                         ret'[t].pages[i].pageIndex,
                                         heap[o].is_ocr))]_vars

\* C12 witness: a Complete returned a report that holds some but not all
\* pages of its document.
C12_Witness ==
    \E t \in Threads :
        /\ pc[t] = "done" /\ op[t] = "complete" /\ ret[t].kind = "success"
        /\ Len(ret[t].pages) > 0
        /\ Range(PageIndexes(ret[t].pages)) # 0..(heap[job_data[t]].page_count - 1)
        /\ Range(PageIndexes(ret[t].pages)) = Range(completed[job_data[t]])

\* C13: every pages list only grows at its end, and the page indexes of the
\* report a Complete returns are, in order, the page indexes in the order
\* their process_single_page calls returned.
C13_ReportInCompletionOrder ==
    [][/\ \A o \in Objs :
             heap[o].live => IsPrefix(heap[o].pages, heap'[o].pages)
       /\ \A t \in Threads :
             (pc[t] = "f_rmtree" /\ pc'[t] = "done" /\ ret'[t].kind = "success")
             => PageIndexes(ret'[t].pages) = completed[job_data[t]]]_vars

\* C13 witness: a report lists page 1 before page 0.
C13_Witness ==
    \E t \in Threads :
        /\ pc[t] = "done" /\ op[t] = "complete" /\ ret[t].kind = "success"
        /\ PageIndexes(ret[t].pages) = <<1, 0>>
        /\ completed[job_data[t]] = <<1, 0>>

\* the worker that takes the step: the first free worker when a request is
\* accepted, otherwise the worker whose position changes
Acting(t) ==
    IF requests' # requests
    THEN Free(t) /\ \A u \in Threads : u < t => ~Free(u)
    ELSE pc'[t] # pc[t]

ClientErrors == {"JobNotFound", "RangeError", "MissingField"}

\* C14: when shutil.rmtree fails in Complete, the job is removed from
\* processing_results and the caller still gets the completion result (with
\* a warning), not an error in its place.
C14_RmtreeFailureIsWarning ==
    [][\A t \in Threads :
          (pc[t] = "f_rmtree" /\ pc'[t] = "done" /\ job[t] \in dirs')
          => /\ processing_results'[job[t]] = Absent
             /\ ret'[t].kind = "success"]_vars

\* C15: a step in which an operation ends in a client error (job not found,
\* page out of range, missing field) leaves processing_results, every
\* job_data with its pages list, and every output directory unchanged.
C15_ClientErrorChangesNothing ==
    [][\A t \in Threads :
          (Acting(t) /\ pc'[t] = "done" /\ ret'[t].kind \in ClientErrors)
          => UNCHANGED shared]_vars

\* C15 witness: a RequestPage ended with the range error on a registered job
\* that has a cached page and an output directory.
C15_Witness ==
    \E t \in Threads :
        /\ pc[t] = "done" /\ op[t] = "page" /\ ret[t].kind = "RangeError"
        /\ processing_results[job[t]] = job_data[t]
        /\ Len(heap[job_data[t]].pages) > 0
        /\ job[t] \in dirs

\* C16: every process_single_page call for a jobId is made with the mode
\* that is recorded for that jobId.
C16_PageCallsUseRecordedMode ==
    \A t \in Threads :
        (pc[t] = "w_proc" /\ processing_results[job[t]] # Absent)
        => heap[job_data[t]].is_ocr = heap[processing_results[job[t]]].is_ocr

\* C17: a step of an operation on one jobId leaves every other registered
\* jobId registered to the same job_data, and that job_data (mode, page
\* count, cached pages) and its output directory unchanged.
C17_OtherJobsUntouched ==
    [][\A t \in Threads :
          Acting(t)
          => \A k \in Jobs :
                (k # job'[t] /\ processing_results[k] # Absent)
                => /\ processing_results'[k] = processing_results[k]
                   /\ heap'[processing_results[k]] = heap[processing_results[k]]
                   /\ (k \in dirs' <=> k \in dirs)]_vars

\* C17 witness: a Complete on one jobId returned its report while another
\* jobId is registered with its output directory.
C17_Witness ==
    \E t \in Threads, k \in Jobs :
        /\ pc[t] = "done" /\ op[t] = "complete" /\ ret[t].kind = "success"
        /\ k # job[t]
        /\ processing_results[job[t]] = Absent
        /\ processing_results[k] # Absent
        /\ heap[processing_results[k]].live
        /\ k \in dirs

\* C18: only a step of a Complete on that jobId unregisters a jobId or
\* removes its output directory, and only a Complete holding that job_data
\* releases its memory.
C18_OnlyCompleteRemoves ==
    [][/\ \A j \in Jobs :
             (\/ processing_results[j] # Absent /\ processing_results'[j] = Absent
              \/ j \in dirs /\ j \notin dirs')
             => \E t \in Threads :
                   Acting(t) /\ op[t] = "complete" /\ job[t] = j
       /\ \A o \in Objs :
             cleaned'[o] # cleaned[o]
             => \E t \in Threads :
                   Acting(t) /\ op[t] = "complete" /\ job_data[t] = o]_vars

\* C18 witness: a RequestPage failed in the engine and the job it named is
\* still registered, unreleased, with its output directory.
C18_Witness ==
    \E t \in Threads :
        /\ pc[t] = "done" /\ op[t] = "page" /\ ret[t].kind = "error500"
        /\ processing_results[job[t]] = job_data[t]
        /\ heap[job_data[t]].live
        /\ cleaned[job_data[t]] = 0
        /\ job[t] \in dirs

\* C19: a page result that a RequestPage returned for a job_data is among
\* the pages of the report a Complete returned for the same job_data.
C19_NoPageResultLost ==
    \A t1, t2 \in Threads :
        (/\ pc[t1] = "done" /\ op[t1] = "page" /\ ret[t1].kind = "page"
         /\ pc[t2] = "done" /\ op[t2] = "complete" /\ ret[t2].kind = "success"
         /\ job_data[t1] = job_data[t2])
        => ret[t1].pages[1] \in Range(ret[t2].pages)

\* C20: when a Start on an unregistered jobId fails, the jobId is not
\* registered and output/{jobId} does not exist.
C20_FailedStartLeavesNothing ==
    [][\A t \in Threads :
          (/\ pc[t] = "s_open" /\ pc'[t] = "done" /\ ret'[t].kind = "error500"
           /\ processing_results[job[t]] = Absent)
          => /\ processing_results'[job[t]] = Absent
             /\ job[t] \notin dirs']_vars
====
